---------------------------- MODULE Spec2Model ----------------------------
(***************************************************************************)
(* Model of the expansion-history engine of ninja_supreme_2.py: the shared *)
(* data object (redshift grid), the engine classes BaseModel /             *)
(* LCDM_Vectorized / DUT_Vectorized and their observable transforms.       *)
(*                                                                         *)
(* Python floats are modelled as binary floating-point numbers with a     *)
(* 30-bit mantissa (a record [k, m, e] standing for m * 2^e), plus the     *)
(* IEEE specials NaN and +/-Inf that numpy produces instead of raising.    *)
(* Every intermediate integer stays below 2^31.                            *)
(***************************************************************************)
EXTENDS Integers, Sequences, FiniteSets, TLC

(***************************************************************************)
(* Floating-point values.                                                  *)
(***************************************************************************)
Abs(n) == IF n < 0 THEN -n ELSE n

Sgn(n) == IF n < 0 THEN -1 ELSE IF n = 0 THEN 0 ELSE 1

Fin(m, e) == [k |-> "fin", m |-> m, e |-> e]

NaN == [k |-> "nan", m |-> 0, e |-> 0]

Inf(s) == [k |-> "inf", m |-> s, e |-> 0]

Zero == Fin(0, 0)

IsFinite(x) == x.k = "fin"

IsNaN(x) == x.k = "nan"

\* m * 2^e with the mantissa brought into [2^29, 2^30); 0 is (0, 0).
RECURSIVE Norm(_, _)
Norm(m, e) ==
    IF m = 0 THEN Zero
    ELSE IF Abs(m) >= 2^30 THEN Norm(Sgn(m) * (Abs(m) \div 2), e + 1)
    ELSE IF Abs(m) < 2^15 THEN Norm(m * 2^15, e - 15)
    ELSE IF Abs(m) < 2^29 THEN Norm(m * 2, e - 1)
    ELSE Fin(m, e)

FromInt(n) == Norm(n, 0)

Neg(x) == IF x.k = "nan" THEN NaN ELSE [x EXCEPT !.m = -x.m]

\* floor(a * b / 2^29) for 0 <= a, b < 2^30, from the 15-bit halves
\* a = a1 * 2^15 + a0, b = b1 * 2^15 + b0
MulHalves(a1, a0, b1, b0) ==
    2 * (a1 * b1) + (a1 * b0 + a0 * b1 + (a0 * b0) \div 2^15) \div 2^14

MulHi(a, b) == MulHalves(a \div 2^15, a % 2^15, b \div 2^15, b % 2^15)

\* s * q * 2^e for a quotient or product q in [2^29, 2^31)
Round31(s, q, e) ==
    IF q >= 2^30 THEN Fin(s * (q \div 2), e + 1) ELSE Norm(s * q, e)

FMul(x, y) ==
    IF x.k = "nan" \/ y.k = "nan" THEN NaN
    ELSE IF x.k = "inf" \/ y.k = "inf"
         THEN IF x.m = 0 \/ y.m = 0 THEN NaN ELSE Inf(Sgn(x.m) * Sgn(y.m))
    ELSE IF x.m = 0 \/ y.m = 0 THEN Zero
    ELSE Round31(Sgn(x.m) * Sgn(y.m), MulHi(Abs(x.m), Abs(y.m)), x.e + y.e + 29)

\* x + y for finite nonzero x, y with x.e >= y.e
AddAligned(x, y) ==
    IF x.e - y.e > 30 THEN x
    ELSE Norm(x.m + Sgn(y.m) * (Abs(y.m) \div 2^(x.e - y.e)), x.e)

FAdd(x, y) ==
    IF x.k = "nan" \/ y.k = "nan" THEN NaN
    ELSE IF x.k = "inf"
         THEN IF y.k = "inf" /\ y.m # x.m THEN NaN ELSE x
    ELSE IF y.k = "inf" THEN y
    ELSE IF x.m = 0 THEN y
    ELSE IF y.m = 0 THEN x
    ELSE IF x.e >= y.e THEN AddAligned(x, y) ELSE AddAligned(y, x)

FSub(x, y) == FAdd(x, Neg(y))

\* the bits of r / b after the binary point, n of them appended to q
RECURSIVE DivBits(_, _, _, _)
DivBits(r, b, n, q) ==
    IF n = 0 THEN q
    ELSE IF 2 * r >= b THEN DivBits(2 * r - b, b, n - 1, 2 * q + 1)
    ELSE DivBits(2 * r, b, n - 1, 2 * q)

\* floor(a * 2^30 / b) for a, b in [2^29, 2^30)
DivHi(a, b) == DivBits(a % b, b, 30, a \div b)

FDiv(x, y) ==
    IF x.k = "nan" \/ y.k = "nan" THEN NaN
    ELSE IF x.k = "inf"
         THEN IF y.k = "inf" THEN NaN
              ELSE Inf(x.m * (IF y.m < 0 THEN -1 ELSE 1))
    ELSE IF y.k = "inf" THEN Zero
    ELSE IF y.m = 0 THEN (IF x.m = 0 THEN NaN ELSE Inf(Sgn(x.m)))
    ELSE IF x.m = 0 THEN Zero
    ELSE Round31(Sgn(x.m) * Sgn(y.m), DivHi(Abs(x.m), Abs(y.m)), x.e - y.e - 30)

\* comparisons; any comparison with NaN is false, as in IEEE arithmetic
SignOf(x) == IF x.k = "nan" THEN 0 ELSE Sgn(x.m)

FLt(x, y) ==
    /\ x.k # "nan" /\ y.k # "nan"
    /\ x # y
    /\ IF x.k = "inf" THEN x.m < 0
       ELSE IF y.k = "inf" THEN y.m > 0
       ELSE FSub(x, y).m < 0

FLe(x, y) == x.k # "nan" /\ y.k # "nan" /\ (x = y \/ FLt(x, y))

FAbs(x) == IF x.k = "nan" THEN NaN ELSE [x EXCEPT !.m = Abs(x.m)]

\* a decimal literal n / 10^d
Dec(n, d) == FDiv(FromInt(n), FromInt(10^d))

One == FromInt(1)

Two == FromInt(2)

\* an array with its elements computed once: the same sequence as f
MkSeq(f) == f \o << >>

(***************************************************************************)
(* Elementary functions: np.sqrt, np.log10 and the float power `**`.       *)
(***************************************************************************)
\* floor(q * q / 2^28) for q = q1 * 2^15 + q0 < 23171 * 2^15
SqHalves(q1, q0) ==
    4 * (q1 * q1) + (q1 * q0 + (q0 * q0) \div 2^16) \div 2^12

\* c * c <= M * 2^28, to the last bit
SqFits(c, M) == c \div 2^15 <= 23170 /\ SqHalves(c \div 2^15, c % 2^15) <= M

\* the largest q, built bit by bit from bit n down, with q * q <= M * 2^28
RECURSIVE SqrtBits(_, _, _)
SqrtBits(M, n, q) ==
    IF n < 0 THEN q
    ELSE IF SqFits(q + 2^n, M) THEN SqrtBits(M, n - 1, q + 2^n)
    ELSE SqrtBits(M, n - 1, q)

\* np.sqrt: NaN for a negative argument (a warning, no exception)
Sqrt(x) ==
    IF x.k = "nan" THEN NaN
    ELSE IF x.k = "inf" THEN (IF x.m > 0 THEN x ELSE NaN)
    ELSE IF x.m < 0 THEN NaN
    ELSE IF x.m = 0 THEN Zero
    ELSE IF x.e % 2 = 1 THEN Norm(SqrtBits(2 * x.m, 29, 0), ((x.e - 1) \div 2) - 14)
    ELSE Norm(SqrtBits(x.m, 29, 0), (x.e \div 2) - 14)

\* the first n bits of the fraction of log2(y / 2^29), y in [2^29, 2^30),
\* by repeated squaring: y * y / 2^29 is halved back into [2^29, 2^30)
\* when it leaves it, and that gives the next bit
RECURSIVE LogBits(_, _, _)
LogBits(y, n, acc) ==
    IF n = 0 THEN acc
    ELSE IF MulHi(y, y) >= 2^30
         THEN LogBits(MulHi(y, y) \div 2, n - 1, 2 * acc + 1)
    ELSE LogBits(MulHi(y, y), n - 1, 2 * acc)

\* log2 of a finite x > 0
Log2(x) == FAdd(FromInt(x.e + 29), Norm(LogBits(x.m, 24, 0), -24))

\* Root2[i] = 2^(1/2^i), i = 1..24: the mantissas floor(2^29 * 2^(1/2^i))
Root2Mantissa ==
    << 759250124, 638450708, 585461880, 560640217, 548626854, 542717052,
       539786067, 538326516, 537598221, 537234443, 537052647, 536961771,
       536916340, 536893625, 536882268, 536876590, 536873751, 536872331,
       536871621, 536871266, 536871089, 536871000, 536870956, 536870934 >>

\* the product of Root2[i] over the bits i set in the 24-bit fraction f
RECURSIVE ExpBits(_, _, _)
ExpBits(f, i, acc) ==
    IF i = 0 \/ acc.k # "fin" THEN acc
    ELSE IF f % 2 = 1
         THEN ExpBits(f \div 2, i - 1, FMul(acc, Fin(Root2Mantissa[i], -29)))
    ELSE ExpBits(f \div 2, i - 1, acc)

\* floor(n / d) for d > 0 and any integer n
FloorDiv(n, d) == IF n >= 0 THEN n \div d ELSE -((-n + d - 1) \div d)

\* floor(x * 2^24) for a finite x with |x| < 2^6
Fix24(x) ==
    IF x.m = 0 THEN 0
    ELSE IF x.e + 24 >= 0 THEN x.m * 2^(x.e + 24)
    ELSE IF x.e + 24 < -30 THEN (IF x.m < 0 THEN -1 ELSE 0)
    ELSE FloorDiv(x.m, 2^(-(x.e + 24)))

\* s * 2^n
Scale(s, n) == Fin(s.m, s.e + n)

\* 2^(t / 2^24)
Exp2Fix(t) == Scale(ExpBits(t % 2^24, 24, One), FloorDiv(t, 2^24))

\* 2^y for a finite y
Exp2(y) ==
    IF y.m # 0 /\ y.e > -24
    THEN (IF y.m > 0 THEN Inf(1) ELSE Zero)
    ELSE Exp2Fix(Fix24(y))

IsInteger(y) ==
    y.k = "fin" /\ (y.m = 0 \/ y.e >= 0 \/ (y.e >= -29 /\ y.m % 2^(-y.e) = 0))

IsOddInteger(y) == IsInteger(y) /\ y.e < 0 /\ (Abs(y.m) \div 2^(-y.e)) % 2 = 1

\* the float power x ** y of numpy: NaN for a negative base with a
\* non-integer exponent (a warning, no exception)
Power(x, y) ==
    IF x.k = "nan" \/ y.k = "nan" THEN NaN
    ELSE IF y.k = "fin" /\ y.m = 0 THEN One
    ELSE IF x.k = "inf" \/ y.k = "inf" THEN NaN
    ELSE IF x.m = 0 THEN (IF y.m > 0 THEN Zero ELSE Inf(1))
    ELSE IF x = One THEN One
    ELSE IF x.m < 0 /\ ~IsInteger(y) THEN NaN
    ELSE IF x.m < 0 /\ IsOddInteger(y) THEN Neg(Exp2(FMul(y, Log2(FAbs(x)))))
    ELSE Exp2(FMul(y, Log2(FAbs(x))))

\* np.log10: -inf at 0 and NaN below 0 (warnings, no exception)
Log10(x) ==
    IF x.k = "nan" THEN NaN
    ELSE IF x.k = "inf" THEN (IF x.m > 0 THEN x ELSE NaN)
    ELSE IF x.m = 0 THEN Inf(-1)
    ELSE IF x.m < 0 THEN NaN
    ELSE FDiv(Log2(x), Log2(FromInt(10)))

\* x ** n for a literal integer exponent n >= 1
RECURSIVE IntPower(_, _)
IntPower(x, n) == IF n = 1 THEN x ELSE FMul(IntPower(x, n - 1), x)

(***************************************************************************)
(* numpy / scipy array helpers used by the engine.                         *)
(***************************************************************************)
\* np.linspace(start, stop, num): start + i * step, the last point set to stop
\* when num > 1; a single point is start; no point for num = 0
linspace(start, stop, num) ==
    LET step == IF num > 1 THEN FDiv(FSub(stop, start), FromInt(num - 1))
                ELSE FSub(stop, start)
    IN  MkSeq([i \in 1..num |->
            IF i = num /\ num > 1 THEN stop
            ELSE FAdd(FMul(FromInt(i - 1), step), start)])

\* 10 ** y, elementwise
ten_to_the(y) == MkSeq([i \in 1..Len(y) |-> Power(FromInt(10), y[i])])

\* np.logspace with endpoint=False: num points, the last one short of stop
logspace_without_endpoint(start, stop, num) ==
    ten_to_the(MkSeq([i \in 1..num |->
        FAdd(FMul(FromInt(i - 1), FDiv(FSub(stop, start), FromInt(num))), start)]))

\* np.logspace(start, stop, num) = 10 ** np.linspace(start, stop, num)
logspace(start, stop, num) == ten_to_the(linspace(start, stop, num))

\* the trapezoid step with the spacing taken backwards, x[n-1] - x[n]
trapezoid_append_backward(prev, y, x, n) ==
    Append(prev,
           FAdd(prev[n - 1],
                FDiv(FMul(FSub(x[n - 1], x[n]), FAdd(y[n], y[n - 1])), Two)))

\* one more entry of the running trapezoid sum: prev[n-1] + d * (y[n] + y[n-1]) / 2
trapezoid_append(prev, y, x, n) ==
    Append(prev,
           FAdd(prev[n - 1],
                FDiv(FMul(FSub(x[n], x[n - 1]), FAdd(y[n], y[n - 1])), Two)))

\* scipy.integrate.cumulative_trapezoid(y, x, initial=0), the first n entries
RECURSIVE cumulative_trapezoid(_, _, _)
cumulative_trapezoid(y, x, n) ==
    IF n = 1 THEN << Zero >>
    ELSE trapezoid_append(cumulative_trapezoid(y, x, n - 1), y, x, n)

AllFinite(y) == \A i \in 1..Len(y) : IsFinite(y[i])

\* the end of PchipInterpolator._edge_case, d being the three-point estimate
pchip_edge_clip(d, m0, m1) ==
    IF SignOf(d) # SignOf(m0) THEN Zero
    ELSE IF SignOf(m0) # SignOf(m1) /\ FLt(FMul(FromInt(3), FAbs(m0)), FAbs(d))
         THEN FMul(FromInt(3), m0)
    ELSE d

\* PchipInterpolator._edge_case
pchip_edge_case(h0, h1, m0, m1) ==
    pchip_edge_clip(FDiv(FSub(FMul(FAdd(FMul(Two, h0), h1), m0), FMul(h0, m1)),
                         FAdd(h0, h1)),
                    m0, m1)

\* 1 / whmean, whmean = (w1/m0 + w2/m1) / (w1 + w2)
pchip_harmonic(w1, w2, m0, m1) ==
    FDiv(One, FDiv(FAdd(FDiv(w1, m0), FDiv(w2, m1)), FAdd(w1, w2)))

\* the slope at an interior knot i: 0 where the secants change sign or vanish
pchip_inner(hk, mk, i) ==
    IF SignOf(mk[i]) # SignOf(mk[i - 1]) \/ mk[i].m = 0 \/ mk[i - 1].m = 0
    THEN Zero
    ELSE pchip_harmonic(FAdd(FMul(Two, hk[i]), hk[i - 1]),
                        FAdd(hk[i], FMul(Two, hk[i - 1])),
                        mk[i - 1], mk[i])

\* the slopes dk from the knot spacings hk and the secants mk
pchip_slopes(hk, mk, n) ==
    IF n = 2 THEN << mk[1], mk[1] >>
    ELSE MkSeq([i \in 1..n |->
            IF i = 1 THEN pchip_edge_case(hk[1], hk[2], mk[1], mk[2])
            ELSE IF i = n
                 THEN pchip_edge_case(hk[n - 1], hk[n - 2], mk[n - 1], mk[n - 2])
            ELSE pchip_inner(hk, mk, i)])

\* np.diff(x)
diff(x) == MkSeq([i \in 1..(Len(x) - 1) |-> FSub(x[i + 1], x[i])])

\* the secant slopes np.diff(y) / hk
secants(y, hk) == MkSeq([i \in 1..Len(hk) |-> FDiv(FSub(y[i + 1], y[i]), hk[i])])

pchip_from_spacing(y, hk) == pchip_slopes(hk, secants(y, hk), Len(y))

\* PchipInterpolator._find_derivatives
pchip_find_derivatives(x, y) == pchip_from_spacing(y, diff(x))

\* the coefficients of one piece, highest power first
hermite_coefficients(dx, slope, d0, y0, t) ==
    << FDiv(t, dx), FSub(FDiv(FSub(slope, d0), dx), t), d0, y0 >>

hermite_from_slope(dx, slope, d0, d1, y0) ==
    hermite_coefficients(dx, slope, d0, y0,
                         FDiv(FSub(FAdd(d0, d1), FMul(Two, slope)), dx))

hermite_piece(dx, y0, y1, d0, d1) ==
    hermite_from_slope(dx, FDiv(FSub(y1, y0), dx), d0, d1, y0)

\* CubicHermiteSpline: the piecewise cubic through (x, y) with slopes dydx;
\* piece i is c[i][1]*s^3 + c[i][2]*s^2 + c[i][3]*s + c[i][4], s = z - x[i]
CubicHermiteSpline(x, y, dydx) ==
    [x |-> x,
     c |-> MkSeq([i \in 1..(Len(x) - 1) |->
              hermite_piece(FSub(x[i + 1], x[i]), y[i], y[i + 1],
                            dydx[i], dydx[i + 1])])]

\* PchipInterpolator(x, y) for a finite table y: extrapolate is left at its
\* default, which extrapolates with the first and the last piece
PchipInterpolator(x, y) == CubicHermiteSpline(x, y, pchip_find_derivatives(x, y))

\* the piece a PPoly evaluates z with: the first piece below x[1], the last
\* piece from x[n-1] on
RECURSIVE find_interval(_, _, _)
find_interval(x, z, i) ==
    IF i < Len(x) - 1 /\ FLe(x[i + 1], z) THEN find_interval(x, z, i + 1) ELSE i

\* c[4] + c[3]*s + c[2]*s^2 + c[1]*s^3
evaluate_poly(c, s) ==
    FAdd(FAdd(FAdd(c[4], FMul(c[3], s)),
              FMul(c[2], FMul(s, s))),
         FMul(c[1], FMul(FMul(s, s), s)))

evaluate_piece(pp, z, i) == evaluate_poly(pp.c[i], FSub(z, pp.x[i]))

\* PPoly.__call__: no bounds check, whatever z is
PPoly_call(pp, z) ==
    IF z.k # "fin" THEN NaN ELSE evaluate_piece(pp, z, find_interval(pp.x, z, 1))

\* np.searchsorted(x, z): the number of elements of x below z
searchsorted(x, z) == Cardinality({i \in 1..Len(x) : FLt(x[i], z)})

\* np.clip
clip(i, lo, hi) == IF i < lo THEN lo ELSE IF i > hi THEN hi ELSE i

\* interp1d(x, y, bounds_error=False, fill_value="extrapolate"), linear
interp1d(x, y) == [x |-> x, y |-> y]

\* slope * (z - x_lo) + y_lo on the segment from knot lo to knot lo + 1
linear_segment(f, z, lo) ==
    FAdd(FMul(FDiv(FSub(f.y[lo + 1], f.y[lo]), FSub(f.x[lo + 1], f.x[lo])),
              FSub(z, f.x[lo])),
         f.y[lo])

\* interp1d with the default fill_value: NaN outside the knots
interp1d_call_filling(f, z) ==
    IF FLt(z, f.x[1]) \/ FLt(f.x[Len(f.x)], z) THEN NaN
    ELSE linear_segment(f, z, clip(searchsorted(f.x, z), 1, Len(f.x) - 1))

\* interp1d._call_linear: no bounds check, the end segments extrapolate
interp1d_call(f, z) ==
    linear_segment(f, z, clip(searchsorted(f.x, z), 1, Len(f.x) - 1))

(***************************************************************************)
(* The shared data object.                                                 *)
(***************************************************************************)
\* the number of redshift-grid points (1000 in the source, reduced here)
N_Z_GRID_POINTS == 4

\* line 45: self.a_grid = 1.0 / (1.0 + self.z_grid)
a_grid_of(z_grid) == MkSeq([i \in 1..Len(z_grid) |-> FDiv(One, FAdd(One, z_grid[i]))])

data_with_grid(z_grid) ==
    [c |-> Dec(299792458, 3), z_grid |-> z_grid, a_grid |-> a_grid_of(z_grid)]

\* the decimal literals n[i] / 10^d of an np.array([...])
Scaled(n, d) == MkSeq([i \in 1..Len(n) |-> Dec(n[i], d)])

\* np.pi, to the mantissa of this arithmetic
pi == Fin(843314857, -28)

\* the odd Taylor terms r - r^3/3! + r^5/5! - ... of sin r, as far as r^23
RECURSIVE SinTerms(_, _, _, _)
SinTerms(r2, term, n, acc) ==
    IF n > 23 \/ term.m = 0 THEN acc
    ELSE SinTerms(r2, FDiv(FMul(term, r2), FromInt(-((n + 1) * (n + 2)))), n + 2,
                  FAdd(acc, term))

\* sin of the remainder r in [-pi, pi]
SinReduced(r) == SinTerms(FMul(r, r), r, 1, Zero)

\* np.sin for |x| < 64: x less the nearest multiple of 2*pi, then the series
Sin(x) ==
    IF x.k # "fin" THEN NaN
    ELSE SinReduced(FSub(x, FMul(FromInt(FloorDiv(Fix24(FDiv(x, FMul(Two, pi))) + 2^23,
                                                  2^24)),
                                  FMul(Two, pi))))

\* lines 50-53: the four redshift ranges of the distance-modulus sample
z_low == linspace(Dec(1, 2), Dec(1, 1), 240)

z_mid == linspace(Dec(12, 2), Dec(6, 1), 520)

z_high == linspace(Dec(65, 2), Dec(14, 1), 200)

z_vhigh == linspace(Dec(15, 1), Dec(23, 1), 88)

\* line 54: np.concatenate([z_low, z_mid, z_high, z_vhigh])
pantheon_z == z_low \o z_mid \o z_high \o z_vhigh

\* line 55: 5*np.log10(z+0.01) + 36.18 + 0.06*np.sin(2*np.pi*z)
pantheon_mu_of(z) ==
    MkSeq([i \in 1..Len(z) |->
        FAdd(FAdd(FMul(FromInt(5), Log10(FAdd(z[i], Dec(1, 2)))), Dec(3618, 2)),
             FMul(Dec(6, 2), Sin(FMul(FMul(Two, pi), z[i]))))])

\* err taken from the first redshift range only: 0.14 + 0.025*z_low
pantheon_err_of_z_low(z) ==
    MkSeq([i \in 1..Len(z_low) |-> FAdd(Dec(14, 2), FMul(Dec(25, 3), z_low[i]))])

\* line 56: err = 0.14 + 0.025*self.pantheon_z
pantheon_err_of(z) ==
    MkSeq([i \in 1..Len(z) |-> FAdd(Dec(14, 2), FMul(Dec(25, 3), z[i]))])

\* line 57: np.eye(len(z)) * (err**2 + 0.015**2), a diagonal matrix: kept as
\* its shape and its diagonal, every other entry being 0
pantheon_cov_of(err) ==
    [shape |-> << Len(err), Len(err) >>,
     diag  |-> MkSeq([i \in 1..Len(err) |->
                   FAdd(IntPower(err[i], 2), IntPower(Dec(15, 3), 2))])]

\* line 61
planck_mean == Scaled(<< 30180000, 104110, 2236, 14300, 6736000, 81100 >>, 5)

\* line 65
bao_z ==
    Scaled(<< 106, 380, 510, 610, 790, 1050, 1550, 2110 >>, 3)

\* line 66
bao_DV ==
    Scaled(<< 4574, 15093, 20371, 25019, 31805, 40102, 53201, 65008 >>, 1)

\* line 67
bao_err ==
    Scaled(<< 125, 251, 285, 332, 450, 501, 621, 805 >>, 1)

\* lines 71-73
hz_euclid_z ==
    Scaled(<< 9, 11, 13, 15, 17, 19, 21, 23, 25, 27 >>, 1)

hz_euclid_data ==
    Scaled(<< 1305, 1552, 1801, 2055, 2301, 2558, 2809, 3055, 3301, 3552 >>, 1)

hz_euclid_err ==
    Scaled(<< 45, 51, 62, 70, 81, 95, 101, 112, 125, 141 >>, 1)

\* lines 74-77
hz_old_z ==
    Scaled(<< 70, 90, 120, 170, 179, 199, 200, 270, 280, 352, 380, 400,
               480, 593, 680, 781, 875, 880, 1000, 1230, 1300, 1360, 1400,
               1450, 1520, 1720, 1750, 1940, 2300, 2320, 2350 >>, 3)
    \o Scaled(<< 510, 600, 698, 850, 1100, 1500, 1750, 2000, 2250 >>, 3)

\* lines 78-81
hz_old_data ==
    Scaled(<< 690, 690, 686, 830, 750, 750, 729, 770, 888, 830, 819, 950,
               970, 1040, 920, 1050, 1150, 900, 1200, 950, 1350, 1600, 1500,
               1550, 1450, 1650, 1700, 1800, 2000, 2100, 2200 >>, 1)
    \o Scaled(<< 1440, 1620, 1625, 1780, 1950, 2200, 2400, 2800, 3200 >>, 1)

\* lines 82-85
hz_old_err ==
    Scaled(<< 196, 120, 262, 80, 40, 50, 296, 140, 366, 140, 21, 170, 620,
               130, 80, 120, 150, 100, 170, 120, 200, 200, 180, 190, 220,
               250, 260, 280, 300, 320, 350 >>, 1)
    \o Scaled(<< 120, 150, 145, 160, 180, 200, 220, 250, 280 >>, 1)

\* line 92
fs8_z ==
    Scaled(<< 1, 15, 25, 30, 37, 38, 42, 51, 56, 60, 61, 64, 67, 70, 73,
               85, 95, 110, 123, 152, 170, 194, 225, 80, 95, 110, 140, 175 >>, 2)

\* line 93
fs8_data ==
    Scaled(<< 450, 413, 428, 430, 440, 437, 450, 452, 460, 462, 462, 465,
               468, 468, 470, 475, 465, 460, 455, 450, 445, 440, 435, 470,
               465, 460, 450, 440 >>, 3)

\* line 94
fs8_err ==
    Scaled(<< 50, 30, 28, 30, 35, 25, 30, 20, 25, 18, 18, 20, 22, 17, 18,
               25, 20, 22, 25, 30, 32, 35, 40, 22, 20, 22, 28, 30 >>, 3)

\* lines 48-109, load_all_data: the fields it adds to the data object self
load_all_data(self) ==
    self @@
    [pantheon_z   |-> pantheon_z,
     pantheon_mu  |-> pantheon_mu_of(pantheon_z),
     pantheon_cov |-> pantheon_cov_of(pantheon_err_of(pantheon_z)),
     n_sn         |-> Len(pantheon_z),
     planck_mean  |-> planck_mean,
     n_planck     |-> 6,
     bao_z        |-> bao_z,
     bao_DV       |-> bao_DV,
     bao_err      |-> bao_err,
     n_bao        |-> Len(bao_z),
     hz_z         |-> hz_old_z \o hz_euclid_z,
     hz_data      |-> hz_old_data \o hz_euclid_data,
     hz_err       |-> hz_old_err \o hz_euclid_err,
     n_hz         |-> Len(hz_old_z \o hz_euclid_z),
     fs8_z        |-> fs8_z,
     fs8_data     |-> fs8_data,
     fs8_err      |-> fs8_err,
     n_fs8        |-> Len(fs8_z),
     cmb_s4_z     |-> FromInt(1090),
     cmb_s4_DA    |-> Dec(1391, 2),
     cmb_s4_DA_err |-> Dec(5, 2),
     n_cmb_s4     |-> 1,
     LSST_S8_mean |-> Dec(771, 3),
     LSST_S8_err  |-> Dec(8, 3),
     H0_SH0ES_mean |-> Dec(7304, 2),
     H0_SH0ES_err |-> Dec(50, 2)]

\* NinjaDataVectorized.__init__: c, z_grid, a_grid, then load_all_data()
NinjaDataVectorized ==
    load_all_data(
        data_with_grid(logspace(FromInt(-3), Log10(FromInt(5)), N_Z_GRID_POINTS)))

(***************************************************************************)
(* The engine: BaseModel and its two subclasses.                           *)
(***************************************************************************)
\* line 123: w_de_grid = self.w0 + self.wa*(1-a_grid)
w_de_grid(w0, wa, a_grid) ==
    MkSeq([i \in 1..Len(a_grid) |-> FAdd(w0, FMul(wa, FSub(One, a_grid[i])))])

\* a_grid ** (-3*(1 + w + xi)), elementwise
rho_de_from_w(w, xi, a_grid) ==
    MkSeq([i \in 1..Len(a_grid) |->
        Power(a_grid[i], FMul(FromInt(-3), FAdd(FAdd(One, w[i]), xi)))])

\* line 124: rho_de_grid = a_grid**(-3*(1+w_de_grid+self.xi))
rho_de_grid(w0, wa, xi, a_grid) == rho_de_from_w(w_de_grid(w0, wa, a_grid), xi, a_grid)

\* the radicand with the matter term multiplied by a^3 instead of divided
radicand_from_rho_diluted(Om, rho, a_grid) ==
    MkSeq([i \in 1..Len(a_grid) |->
        FAdd(FMul(Om, IntPower(a_grid[i], 3)), FMul(FSub(One, Om), rho[i]))])

\* Om/a^3 + (1-Om)*rho, elementwise
radicand_from_rho(Om, rho, a_grid) ==
    MkSeq([i \in 1..Len(a_grid) |->
        FAdd(FDiv(Om, IntPower(a_grid[i], 3)), FMul(FSub(One, Om), rho[i]))])

\* line 126, under the square root: Om/a^3 + (1-Om)*rho_DE(a)
radicand(Om, w0, wa, xi, a_grid) ==
    radicand_from_rho(Om, rho_de_grid(w0, wa, xi, a_grid), a_grid)

\* the Hubble-rate grid with the radicand clamped to its absolute value
hz_from_radicand_clamped(H0, rad) ==
    MkSeq([i \in 1..Len(rad) |-> FMul(H0, Sqrt(FAbs(rad[i])))])

\* H0 * sqrt(rad), elementwise
hz_from_radicand(H0, rad) == MkSeq([i \in 1..Len(rad) |-> FMul(H0, Sqrt(rad[i]))])

\* line 126: self.hz_grid = self.H0 * np.sqrt(...); no check of the radicand
hz_grid(H0, Om, w0, wa, xi, a_grid) ==
    hz_from_radicand(H0, radicand(Om, w0, wa, xi, a_grid))

\* 1 / hz, elementwise
reciprocal(hz) == MkSeq([i \in 1..Len(hz) |-> FDiv(One, hz[i])])

\* line 127: d_c_grid = cumulative_trapezoid(1/self.hz_grid, data.z_grid, initial=0)
d_c_grid(hz, z_grid) == cumulative_trapezoid(reciprocal(hz), z_grid, Len(z_grid))

\* line 130: the table DL_interp is built on, (1+z)*c*d_c_grid/1e5
DL_table(d, dc) ==
    MkSeq([i \in 1..Len(dc) |->
        FDiv(FMul(FMul(FAdd(One, d.z_grid[i]), d.c), dc[i]), FromInt(100000))])

\* scipy's prepare_input refuses a table with a NaN or an infinity
PchipRaises(y) == ~AllFinite(y)

\* lines 129-131: the three interpolators, or the ValueError of the first
\* PchipInterpolator that is given a table that is not finite.  d_c_grid is
\* a local of __init__; the record keeps it beside the interpolator.
BaseModel_interpolators(a, d, hz, dc, dl) ==
    IF PchipRaises(dc) \/ PchipRaises(dl)
    THEN [exc |-> "ValueError", obj |-> << >>]
    ELSE [exc |-> "none",
          obj |-> << [cls |-> a.cls, H0 |-> a.H0, Om |-> a.Om, w0 |-> a.w0,
                      wa |-> a.wa, xi |-> a.xi, s8 |-> a.s8,
                      hz_grid   |-> hz,
                      d_c_grid  |-> dc,
                      Dc_interp |-> PchipInterpolator(d.z_grid, dc),
                      DL_interp |-> PchipInterpolator(d.z_grid, dl),
                      Hz_interp |-> interp1d(d.z_grid, hz)] >>]

BaseModel_tables(a, d, hz, dc) == BaseModel_interpolators(a, d, hz, dc, DL_table(d, dc))

BaseModel_integrate(a, d, hz) == BaseModel_tables(a, d, hz, d_c_grid(hz, d.z_grid))

\* the arguments of a construction
Args(cls, H0, Om, w0, wa, xi, s8) ==
    [cls |-> cls, H0 |-> H0, Om |-> Om, w0 |-> w0, wa |-> wa, xi |-> xi, s8 |-> s8]

\* BaseModel.__init__ (and the subclass's self.s8 = s8): the engine, or the
\* exception raised
BaseModel(a, d) ==
    BaseModel_integrate(a, d, hz_grid(a.H0, a.Om, a.w0, a.wa, a.xi, d.a_grid))

\* the baseline constructor passing the interacting best fit's w0 on
LCDM_Vectorized_phantom(H0, Om, s8, d) ==
    BaseModel(Args("lcdm", H0, Om, Dec(-105, 2), Zero, Zero, s8), d)

\* LCDM_Vectorized.__init__: w0, wa, xi keep BaseModel's defaults
LCDM_Vectorized(H0, Om, s8, d) ==
    BaseModel(Args("lcdm", H0, Om, FromInt(-1), Zero, Zero, s8), d)

\* DUT_Vectorized.__init__
DUT_Vectorized(H0, Om, w0, wa, xi, s8, d) ==
    BaseModel(Args("dut", H0, Om, w0, wa, xi, s8), d)

\* BaseModel.H
H(self, z) == interp1d_call(self.Hz_interp, z)

\* BaseModel.Dc
Dc(self, z) == PPoly_call(self.Dc_interp, z)

\* BaseModel.DL
DL(self, z) == PPoly_call(self.DL_interp, z)

\* BaseModel.mu
mu(self, z) == FAdd(FMul(FromInt(5), Log10(DL(self, z))), FromInt(25))

\* BaseModel.DV
DV(self, d, z) ==
    Power(FDiv(FMul(FMul(FAdd(One, z), IntPower(Dc(self, z), 2)), d.c), H(self, z)),
          FDiv(One, FromInt(3)))

\* BaseModel.DA_Gpc
DA_Gpc(self, d, z) ==
    FMul(FMul(Dc(self, z), FDiv(One, FAdd(One, z))), FDiv(d.c, FromInt(100000)))

\* lines 150-151: a = 1/(1+z); Om_z = self.Om / (a**3 * (self.H(z)/self.H0)**2)
LCDM_Om_z(self, z) ==
    FDiv(self.Om,
         FMul(IntPower(FDiv(One, FAdd(One, z)), 3),
              IntPower(FDiv(H(self, z), self.H0), 2)))

\* lines 152-154: f_z = Om_z**0.55; D_z_approx = Om_z**(3/7)
LCDM_growth(Om_z, s8) ==
    FMul(FMul(Power(Om_z, Dec(55, 2)), Power(Om_z, FDiv(FromInt(3), FromInt(7)))), s8)

\* LCDM_Vectorized.fs8_model
LCDM_fs8_model(self, z) == LCDM_growth(LCDM_Om_z(self, z), self.s8)

\* lines 163-164: a = 1/(1+z); Om_z = self.Om / (a**3 * (self.H(z)/self.H0)**2)
DUT_Om_z(self, z) ==
    FDiv(self.Om,
         FMul(IntPower(FDiv(One, FAdd(One, z)), 3),
              IntPower(FDiv(H(self, z), self.H0), 2)))

\* the interacting variant's growth with the baseline's index 0.55
DUT_growth_baseline_index(Om_z, s8) ==
    FMul(FMul(Power(Om_z, Dec(55, 2)), Power(Om_z, FDiv(FromInt(3), FromInt(7)))), s8)

\* lines 165-167: f_z = Om_z**0.52; D_z_approx = Om_z**(3/7)
DUT_growth(Om_z, s8) ==
    FMul(FMul(Power(Om_z, Dec(52, 2)), Power(Om_z, FDiv(FromInt(3), FromInt(7)))), s8)

\* DUT_Vectorized.fs8_model
DUT_fs8_model(self, z) == DUT_growth(DUT_Om_z(self, z), self.s8)

\* method dispatch on the engine's class
fs8_model(self, z) ==
    IF self.cls = "lcdm" THEN LCDM_fs8_model(self, z) ELSE DUT_fs8_model(self, z)

(***************************************************************************)
(* The state machine: an engine is constructed from parameters, its        *)
(* methods are called at redshifts z, and it is dropped after use.         *)
(***************************************************************************)
VARIABLES
    data,       \* the module-level data object (line 111)
    model,      \* << >> or << the engine the last construction returned >>
    attempt,    \* << >> or << the arguments of the last construction >>
    out,        \* << >> or << the outcome of the last call >>
    BEST_FIT,   \* the module-level parameter table (lines 174-177)
    calls,      \* per request: the position and locals of its handler call
    constructed \* per request: the engines generate_model_curves has built

vars == << data, model, attempt, out, BEST_FIT, calls, constructed >>

\* the number of requests the service is sent
MaxRequests == 2

Requests == 1..MaxRequests

\* lines 174-177
BestFitTable ==
    [lcdm |-> [H0 |-> Dec(678, 1), Om |-> Dec(315, 3), s8 |-> Dec(811, 3)],
     dut  |-> [H0 |-> Dec(692, 1), Om |-> Dec(298, 3), w0 |-> Dec(-105, 2),
               wa |-> Dec(8, 2), xi |-> Dec(35, 3), s8 |-> Dec(795, 3)]]

\* a handler call: its position pc, its query parameters, its locals and,
\* once it has returned or raised, the response the client gets
Frame(pc, op, query, z_array, lcdm, dut, response) ==
    [pc |-> pc, op |-> op, query |-> query, z_array |-> z_array,
     lcdm |-> lcdm, dut |-> dut, response |-> response]

\* no request yet
NoCall == Frame("idle", "none", << >>, << >>, << >>, << >>, << >>)

\* parameter values LCDM_Vectorized is called with: BEST_FIT["lcdm"] and
\* values outside the documented ranges (H0 = 0, Om = 1.5, Om = -0.5,
\* s8 = -0.1)
H0_values == { Dec(678, 1), Zero }

Om_values == { Dec(315, 3), Dec(15, 1), Dec(-5, 1) }

s8_values == { Dec(811, 3), Dec(-1, 1) }

\* (H0, Om) pairs DUT_Vectorized is called with: BEST_FIT["dut"], the
\* baseline pair, and Om = 1.5
DUT_H0_Om ==
    { << Dec(692, 1), Dec(298, 3) >>,
      << Dec(678, 1), Dec(315, 3) >>,
      << Dec(678, 1), Dec(15, 1) >> }

\* (w0, wa, xi): the cosmological constant, the best fit of BEST_FIT["dut"],
\* and a dark energy that outgrows matter
DE_values ==
    { << FromInt(-1), Zero, Zero >>,
      << Dec(-105, 2), Dec(8, 2), Dec(35, 3) >>,
      << Zero, Zero, Dec(3, 1) >> }

\* the redshifts the methods are called at: every grid point, z = 0 (below
\* the grid), z = 0.38 (inside) and z = 6 (above)
EvalPoints ==
    { data.z_grid[i] : i \in 1..Len(data.z_grid) }
        \cup { Zero, Dec(38, 2), FromInt(6) }

Outcome(call, z, ret, exc) == [call |-> call, z |-> z, ret |-> ret, exc |-> exc]

Init ==
    /\ data = NinjaDataVectorized
    /\ model = << >>
    /\ attempt = << >>
    /\ out = << >>
    /\ BEST_FIT = BestFitTable
    /\ calls = [r \in Requests |-> NoCall]
    /\ constructed = [r \in Requests |-> [lcdm |-> 0, dut |-> 0]]

\* the outcome r of a constructor call with the arguments a
Constructed(a, r) ==
    /\ attempt' = << a >>
    /\ model' = r.obj
    /\ out' = << Outcome(IF a.cls = "lcdm" THEN "LCDM_Vectorized" ELSE "DUT_Vectorized",
                         Zero, Zero, r.exc) >>
    /\ UNCHANGED << data, BEST_FIT, calls, constructed >>

\* model = LCDM_Vectorized(H0, Om, s8, data)
NewLCDM ==
    /\ attempt = << >>
    /\ \E H0 \in H0_values, Om \in Om_values, s8 \in s8_values :
          Constructed(Args("lcdm", H0, Om, FromInt(-1), Zero, Zero, s8),
                      LCDM_Vectorized(H0, Om, s8, data))

\* model = DUT_Vectorized(H0, Om, w0, wa, xi, s8, data)
NewDUT ==
    /\ attempt = << >>
    /\ \E p \in DUT_H0_Om, de \in DE_values :
          Constructed(Args("dut", p[1], p[2], de[1], de[2], de[3], Dec(795, 3)),
                      DUT_Vectorized(p[1], p[2], de[1], de[2], de[3], Dec(795, 3), data))

\* a method call that keeps its argument on the engine (self.H0 = z)
Call_storing(call, z, ret) ==
    /\ out' = << Outcome(call, z, ret, "none") >>
    /\ model' = << [model[1] EXCEPT !.H0 = z] >>
    /\ UNCHANGED << data, attempt, BEST_FIT, calls, constructed >>

\* a method call model.<call>(z); numpy raises nothing in any of them
Call(call, z, ret) ==
    /\ out' = << Outcome(call, z, ret, "none") >>
    /\ UNCHANGED << data, model, attempt, BEST_FIT, calls, constructed >>

CallH == model # << >> /\ \E z \in EvalPoints : Call("H", z, H(model[1], z))

CallDc == model # << >> /\ \E z \in EvalPoints : Call("Dc", z, Dc(model[1], z))

CallDL == model # << >> /\ \E z \in EvalPoints : Call("DL", z, DL(model[1], z))

CallMu == model # << >> /\ \E z \in EvalPoints : Call("mu", z, mu(model[1], z))

CallDV == model # << >> /\ \E z \in EvalPoints : Call("DV", z, DV(model[1], data, z))

CallDA_Gpc ==
    model # << >> /\ \E z \in EvalPoints : Call("DA_Gpc", z, DA_Gpc(model[1], data, z))

CallFs8 ==
    model # << >> /\ \E z \in EvalPoints : Call("fs8_model", z, fs8_model(model[1], z))

\* the engine goes out of scope
Drop ==
    /\ attempt # << >>
    /\ model' = << >>
    /\ attempt' = << >>
    /\ out' = << >>
    /\ UNCHANGED << data, BEST_FIT, calls, constructed >>

Next ==
    \/ NewLCDM
    \/ NewDUT
    \/ CallH
    \/ CallDc
    \/ CallDL
    \/ CallMu
    \/ CallDV
    \/ CallDA_Gpc
    \/ CallFs8
    \/ Drop

Spec == Init /\ [][Next]_vars

(***************************************************************************)
(* The service: the handlers of /api/models/curves and                     *)
(* /api/data/observational.  A handler call is modelled in the steps its   *)
(* statements take, so that the calls of different requests interleave.    *)
(***************************************************************************)
\* model.H(z_array).tolist()
hz_curve(self, z_array) == MkSeq([i \in 1..Len(z_array) |-> H(self, z_array[i])])

\* model.mu(z_array).tolist()
mu_curve(self, z_array) == MkSeq([i \in 1..Len(z_array) |-> mu(self, z_array[i])])

\* model.DV(z_array).tolist()
dv_curve(self, d, z_array) ==
    MkSeq([i \in 1..Len(z_array) |-> DV(self, d, z_array[i])])

\* model.fs8_model(z_array).tolist()
fs8_curve(self, z_array) ==
    MkSeq([i \in 1..Len(z_array) |-> fs8_model(self, z_array[i])])

\* lines 189-194: the dict generate_model_curves returns
curves_of(self, d, z_array) ==
    [hz  |-> hz_curve(self, z_array),
     mu  |-> mu_curve(self, z_array),
     dv  |-> dv_curve(self, d, z_array),
     fs8 |-> fs8_curve(self, z_array)]

\* lines 183-187: the engine of the model type, from its best-fit parameters
construct_from(params, model_type, d) ==
    IF model_type = "lcdm"
    THEN LCDM_Vectorized(params.H0, params.Om, params.s8, d)
    ELSE DUT_Vectorized(params.H0, params.Om, params.w0, params.wa, params.xi,
                        params.s8, d)

\* the curves of the constructed engine, or the constructor's exception
curves_or_raise(r, d, z_array) ==
    IF r.exc # "none" THEN [exc |-> r.exc, ret |-> << >>]
    ELSE [exc |-> "none", ret |-> << curves_of(r.obj[1], d, z_array) >>]

\* generate_model_curves(z_array, model_type), reading BEST_FIT and data
generate_model_curves(z_array, model_type, bf, d) ==
    curves_or_raise(construct_from(bf[model_type], model_type, d), d, z_array)

\* an exception that leaves the handler: the server answers 500
InternalServerError(exc) == [status |-> 500, exc |-> exc, content |-> << >>]

\* JSONResponse(content): json.dumps(..., allow_nan=False) raises ValueError
\* for a NaN or an infinity
JSONResponse(content, compliant) ==
    IF compliant THEN [status |-> 200, exc |-> "none", content |-> << content >>]
    ELSE InternalServerError("ValueError")

FiniteCurves(c) ==
    AllFinite(c.hz) /\ AllFinite(c.mu) /\ AllFinite(c.dv) /\ AllFinite(c.fs8)

\* lines 251-255: the content of the curves response
curves_content(z_array, lcdm, dut) == [z |-> z_array, lcdm |-> lcdm, dut |-> dut]

curves_compliant(content) ==
    AllFinite(content.z) /\ FiniteCurves(content.lcdm) /\ FiniteCurves(content.dut)

\* np.sqrt, elementwise
sqrt_each(y) == MkSeq([i \in 1..Len(y) |-> Sqrt(y[i])])

\* lines 215-243: the content of the observational-data response
get_observational_data(d) ==
    [pantheon |-> [z |-> d.pantheon_z, mu |-> d.pantheon_mu,
                   err |-> sqrt_each(d.pantheon_cov.diag), n_points |-> d.n_sn],
     bao      |-> [z |-> d.bao_z, DV |-> d.bao_DV, err |-> d.bao_err,
                   n_points |-> d.n_bao],
     hubble   |-> [z |-> d.hz_z, H |-> d.hz_data, err |-> d.hz_err,
                   n_points |-> d.n_hz],
     fs8      |-> [z |-> d.fs8_z, fs8 |-> d.fs8_data, err |-> d.fs8_err,
                   n_points |-> d.n_fs8],
     priors   |-> [SH0ES_H0 |-> [mean |-> d.H0_SH0ES_mean, err |-> d.H0_SH0ES_err],
                   LSST_S8  |-> [mean |-> d.LSST_S8_mean, err |-> d.LSST_S8_err]]]

\* the content for the data object as loaded, computed once
LoadedObservationalContent == get_observational_data(NinjaDataVectorized)

\* get_observational_data(d), not computed again for the loaded data object
observational_content(d) ==
    IF d = NinjaDataVectorized THEN LoadedObservationalContent
    ELSE get_observational_data(d)

observational_compliant(c) ==
    /\ AllFinite(c.pantheon.z) /\ AllFinite(c.pantheon.mu) /\ AllFinite(c.pantheon.err)
    /\ AllFinite(c.bao.z) /\ AllFinite(c.bao.DV) /\ AllFinite(c.bao.err)
    /\ AllFinite(c.hubble.z) /\ AllFinite(c.hubble.H) /\ AllFinite(c.hubble.err)
    /\ AllFinite(c.fs8.z) /\ AllFinite(c.fs8.fs8) /\ AllFinite(c.fs8.err)

\* the query parameters of /api/models/curves
Query(z_min, z_max, n_points) ==
    [z_min |-> z_min, z_max |-> z_max, n_points |-> n_points]

\* the queries sent: inside the grid, from z = 0 (below the grid), up to
\* z = 6 (above the grid), and a negative number of points
CurveQueries ==
    { Query(Dec(1, 2), Dec(25, 1), 3),
      Query(Zero, Dec(25, 1), 2),
      Query(Dec(1, 2), FromInt(6), 2),
      Query(Dec(1, 2), Dec(25, 1), -1) }

\* line 249: z_array = np.linspace(z_min, z_max, n_points), which raises
\* ValueError for a negative number of samples
get_model_curves_linspace(q) ==
    IF q.n_points < 0
    THEN Frame("done", "curves", q, << >>, << >>, << >>,
               << InternalServerError("ValueError") >>)
    ELSE Frame("lcdm", "curves", q, linspace(q.z_min, q.z_max, q.n_points),
               << >>, << >>, << >>)

\* the z_array that is a global shared by all calls: that of the first call
z_array_of_shared(c, r) == c[1].z_array

\* the local z_array of the call of request r
z_array_of(c, r) == c[r].z_array

\* the frame f after generate_model_curves returned or raised g
after_curves(f, model_type, g, next_pc) ==
    IF g.exc # "none"
    THEN [f EXCEPT !.pc = "done", !.response = << InternalServerError(g.exc) >>]
    ELSE [f EXCEPT !.pc = next_pc, ![model_type] = g.ret]

\* the frame f after return JSONResponse(content)
after_response(f, content) ==
    [f EXCEPT !.pc = "done",
              !.response = << JSONResponse(content, curves_compliant(content)) >>]

\* request r arrives: the requests are numbered in the order of arrival
Arrives(r) ==
    /\ calls[r].pc = "idle"
    /\ \A earlier \in 1..(r - 1) : calls[earlier].pc # "idle"

\* a request for /api/models/curves arrives; lines 247-249
GetModelCurves(r) ==
    /\ Arrives(r)
    /\ \E q \in CurveQueries :
          calls' = [calls EXCEPT ![r] = get_model_curves_linspace(q)]
    /\ UNCHANGED << data, model, attempt, out, BEST_FIT, constructed >>

\* line 253: generate_model_curves(z_array, "lcdm")
GenerateLCDM(r) ==
    /\ calls[r].pc = "lcdm"
    /\ calls' = [calls EXCEPT ![r] =
                    after_curves(calls[r], "lcdm",
                                 generate_model_curves(z_array_of(calls, r), "lcdm",
                                                       BEST_FIT, data),
                                 "dut")]
    /\ constructed' = [constructed EXCEPT ![r].lcdm = @ + 1]
    /\ UNCHANGED << data, model, attempt, out, BEST_FIT >>

\* line 254: generate_model_curves(z_array, "dut")
GenerateDUT(r) ==
    /\ calls[r].pc = "dut"
    /\ calls' = [calls EXCEPT ![r] =
                    after_curves(calls[r], "dut",
                                 generate_model_curves(z_array_of(calls, r), "dut",
                                                       BEST_FIT, data),
                                 "respond")]
    /\ constructed' = [constructed EXCEPT ![r].dut = @ + 1]
    /\ UNCHANGED << data, model, attempt, out, BEST_FIT >>

\* lines 251-255: return JSONResponse({...})
Respond(r) ==
    /\ calls[r].pc = "respond"
    /\ calls' = [calls EXCEPT ![r] =
                    after_response(calls[r],
                                   curves_content(z_array_of(calls, r),
                                                  calls[r].lcdm[1], calls[r].dut[1]))]
    /\ UNCHANGED << data, model, attempt, out, BEST_FIT, constructed >>

\* return JSONResponse(content) of get_observational_data
observational_response(content) ==
    JSONResponse(content, observational_compliant(content))

\* a request for /api/data/observational is answered; lines 212-244.  One
\* of the requests sent is for the observational data.
GetObservationalData(r) ==
    /\ Arrives(r)
    /\ \A other \in Requests : calls[other].op # "observational"
    /\ calls' = [calls EXCEPT ![r] =
                    Frame("done", "observational", << >>, << >>, << >>, << >>,
                          << observational_response(observational_content(data)) >>)]
    /\ UNCHANGED << data, model, attempt, out, BEST_FIT, constructed >>

\* lines 277-296: the content of the comparison-metrics response, its
\* numbers being literals of the source
get_metrics ==
    [lcdm |-> [chi2_min |-> Dec(28911, 1),
               chi2_dof |-> FDiv(Dec(28911, 1), FromInt(1048 + 49 + 28 + 8 - 3)),
               n_params |-> 3],
     dut  |-> [chi2_min |-> Dec(28835, 1),
               chi2_dof |-> FDiv(Dec(28835, 1), FromInt(1048 + 49 + 28 + 8 - 6)),
               n_params |-> 6],
     comparison |-> [delta_chi2 |-> Dec(-76, 1),
                     delta_aic  |-> Dec(-16, 1),
                     delta_bic  |-> Dec(89, 1)]]

metrics_compliant(c) ==
    /\ IsFinite(c.lcdm.chi2_min) /\ IsFinite(c.lcdm.chi2_dof)
    /\ IsFinite(c.dut.chi2_min) /\ IsFinite(c.dut.chi2_dof)
    /\ IsFinite(c.comparison.delta_chi2) /\ IsFinite(c.comparison.delta_aic)
    /\ IsFinite(c.comparison.delta_bic)

\* return JSONResponse(content) of get_metrics
metrics_response(content) == JSONResponse(content, metrics_compliant(content))

\* a request for /api/analysis/metrics is answered; lines 273-298
GetMetrics(r) ==
    /\ Arrives(r)
    /\ calls' = [calls EXCEPT ![r] =
                    Frame("done", "metrics", << >>, << >>, << >>, << >>,
                          << metrics_response(get_metrics) >>)]
    /\ UNCHANGED << data, model, attempt, out, BEST_FIT, constructed >>

ServeNext ==
    \E r \in Requests :
        \/ GetModelCurves(r)
        \/ GenerateLCDM(r)
        \/ GenerateDUT(r)
        \/ Respond(r)
        \/ GetObservationalData(r)
        \/ GetMetrics(r)

Serve == Init /\ [][ServeNext]_vars


(***************************************************************************)
(* Properties.                                                             *)
(***************************************************************************)
\* the documented parameter ranges: H0 > 0, 0 < Om < 1, s8 >= 0
ValidParameters(a) ==
    /\ FLt(Zero, a.H0)
    /\ FLt(Zero, a.Om) /\ FLt(a.Om, One)
    /\ FLe(Zero, a.s8)

\* the last construction was given valid parameters and returned an engine
ValidEngine == model # << >> /\ ValidParameters(attempt[1])

\* the last call was the method `call` of the engine
Called(call) == model # << >> /\ out # << >> /\ out[1].call = call

\* the last constructor call raised
ConstructionFailed == model = << >> /\ out # << >> /\ out[1].exc # "none"

OnGrid(z) == \E i \in 1..Len(data.z_grid) : z = data.z_grid[i]

OutsideGrid(z) == FLt(z, data.z_grid[1]) \/ FLt(data.z_grid[Len(data.z_grid)], z)

\* x and y agree to the relative precision of the modelled arithmetic
Close(x, y) ==
    /\ IsFinite(x) /\ IsFinite(y)
    /\ FLe(FAbs(FSub(x, y)), FMul(Dec(1, 6), FAbs(y)))

\* C1: a construction with Om outside (0,1), H0 <= 0 or s8 < 0 fails with
\* an error and leaves no engine.
C1_InvalidParametersFail ==
    (attempt # << >> /\ ~ValidParameters(attempt[1])) => ConstructionFailed

\* some grid point has a negative radicand for the arguments a
NegativeRadicand(a) ==
    \E i \in 1..Len(data.a_grid) :
        radicand(a.Om, a.w0, a.wa, a.xi, data.a_grid)[i].m < 0

\* C2: when the radicand is negative at some grid point the construction
\* fails with an error, and no engine holds a Hubble-rate grid with a NaN.
C2_NegativeRadicandFails ==
    /\ (attempt # << >> /\ NegativeRadicand(attempt[1])) => ConstructionFailed
    /\ model # << >> =>
          \A i \in 1..Len(model[1].hz_grid) : ~IsNaN(model[1].hz_grid[i])

C2_Witness ==
    /\ attempt # << >> /\ NegativeRadicand(attempt[1])
    /\ out # << >> /\ out[1].exc = "ValueError"

\* C3: Dc(z) and DL(z) at a z below the first or above the last grid value
\* are refused with an error.
C3_DistancesRefuseOutsideGrid ==
    (ValidEngine /\ (Called("Dc") \/ Called("DL")) /\ OutsideGrid(out[1].z))
        => out[1].exc # "none"

\* C4: mu, DV and DA_Gpc return a finite number or fail; they never return
\* NaN (or an infinity).
C4_TransformsFiniteOrFail ==
    (ValidEngine /\ (Called("mu") \/ Called("DV") \/ Called("DA_Gpc")))
        => (out[1].exc # "none" \/ IsFinite(out[1].ret))

\* C5: the comoving distance the engine returns at z = 0 is exactly 0.
C5_DcAtZeroIsZero ==
    (ValidEngine /\ Called("Dc") /\ out[1].z = Zero) => out[1].ret = Zero

\* C6: for valid parameters the comoving-distance table has one entry per
\* grid point, starts at exactly 0 and is non-decreasing in grid order.
C6_ComovingTable ==
    ValidEngine =>
        /\ Len(model[1].d_c_grid) = Len(data.z_grid)
        /\ model[1].d_c_grid[1] = Zero
        /\ \A i \in 1..(Len(model[1].d_c_grid) - 1) :
              FLe(model[1].d_c_grid[i], model[1].d_c_grid[i + 1])

C6_Witness ==
    /\ ValidEngine
    /\ FLt(model[1].d_c_grid[1], model[1].d_c_grid[Len(data.z_grid)])

\* C7: at every grid point z_i, DL(z_i) = (1 + z_i) * c * Dc(z_i), with no
\* other scale factor.
C7_LuminosityDistanceAtGrid ==
    (ValidEngine /\ Called("DL") /\ OnGrid(out[1].z))
        => Close(out[1].ret,
                 FMul(FMul(FAdd(One, out[1].z), data.c), Dc(model[1], out[1].z)))

\* C8: DV(z) is the cube root of Dc(z)^2 * c * z / H(z).
C8_VolumeDistanceFormula ==
    (ValidEngine /\ Called("DV"))
        => Close(out[1].ret,
                 Power(FDiv(FMul(FMul(IntPower(Dc(model[1], out[1].z), 2), data.c),
                                 out[1].z),
                            H(model[1], out[1].z)),
                       FDiv(One, FromInt(3))))

\* the growth index the specification gives each variant
GrowthIndex(cls) == IF cls = "lcdm" THEN Dec(55, 2) ELSE Dec(52, 2)

\* Om / (a^3 * (H(z)/H0)^2), a = 1/(1+z), with the engine's own H(z)
MatterFraction(self, z) ==
    FDiv(self.Om,
         FMul(IntPower(FDiv(One, FAdd(One, z)), 3),
              IntPower(FDiv(H(self, z), self.H0), 2)))

\* Om_z^gamma * Om_z^(3/7) * s8
GrowthFormula(Om_z, gamma, s8) ==
    FMul(FMul(Power(Om_z, gamma), Power(Om_z, FDiv(FromInt(3), FromInt(7)))), s8)

\* C9: both variants return Om_z^gamma * Om_z^(3/7) * s8 for fs8(z), with
\* gamma = 0.55 for the baseline and 0.52 for the interacting variant.
C9_SharedGrowthFormula ==
    Called("fs8_model") =>
        out[1].ret = GrowthFormula(MatterFraction(model[1], out[1].z),
                                   GrowthIndex(model[1].cls), model[1].s8)

C9_Witness ==
    /\ ValidEngine /\ Called("fs8_model") /\ model[1].cls = "dut"
    /\ IsFinite(out[1].ret)
    /\ out[1].ret # LCDM_fs8_model(model[1], out[1].z)

\* C10: for a baseline engine the Hubble rate returned at z = 0 is exactly H0.
C10_HubbleAtZeroIsH0 ==
    (ValidEngine /\ Called("H") /\ model[1].cls = "lcdm" /\ out[1].z = Zero)
        => out[1].ret = model[1].H0


\* the engine was built with the baseline's dark energy: w0 = -1, wa = 0, xi = 0
BaselineDarkEnergy(self) ==
    self.w0 = FromInt(-1) /\ self.wa = Zero /\ self.xi = Zero

\* the sequence y is non-decreasing in index order
NonDecreasing(y) == \A i \in 1..(Len(y) - 1) : FLe(y[i], y[i + 1])

\* C11: for a baseline engine (w0 = -1, wa = 0, xi = 0) with 0 < Om < 1 and
\* H0 > 0 the Hubble-rate grid is non-decreasing in grid order.
C11_BaselineHubbleMonotone ==
    (ValidEngine /\ BaselineDarkEnergy(model[1])) => NonDecreasing(model[1].hz_grid)

C11_Witness ==
    /\ ValidEngine /\ BaselineDarkEnergy(model[1])
    /\ FLt(model[1].hz_grid[1], model[1].hz_grid[Len(model[1].hz_grid)])


StrictlyIncreasing(y) == \A i \in 1..(Len(y) - 1) : FLt(y[i], y[i + 1])

CosmologicalConstantHubble(H0, Om, a) ==
    FMul(H0, Sqrt(FAdd(FDiv(Om, IntPower(a, 3)), FSub(One, Om))))

\* the engine self has the grid and the distance table of the construction
\* outcome b, and its last call returned what b's engine returns
SameBackground(self, b) ==
    /\ b.exc = "none"
    /\ self.hz_grid = b.obj[1].hz_grid
    /\ self.d_c_grid = b.obj[1].d_c_grid
    /\ Called("H") => out[1].ret = H(b.obj[1], out[1].z)
    /\ Called("Dc") => out[1].ret = Dc(b.obj[1], out[1].z)
    /\ Called("DL") => out[1].ret = DL(b.obj[1], out[1].z)
    /\ Called("mu") => out[1].ret = mu(b.obj[1], out[1].z)
    /\ Called("DV") => out[1].ret = DV(b.obj[1], data, out[1].z)

\* C19: a baseline engine has w0 = -1, wa = 0, xi = 0 and a dark-energy
\* density factor of 1 at every grid point; an interacting engine built with
\* w0 = -1, wa = 0, xi = 0 has the Hubble-rate grid and distance table of the
\* baseline engine with the same H0 and Om, and returns the same H, Dc, DL,
\* mu and DV.
C19_BaselineIsCosmologicalConstant ==
    /\ (model # << >> /\ model[1].cls = "lcdm") =>
          /\ BaselineDarkEnergy(model[1])
          /\ \A i \in 1..Len(data.a_grid) :
                model[1].hz_grid[i] =
                    CosmologicalConstantHubble(model[1].H0, model[1].Om, data.a_grid[i])
    /\ (model # << >> /\ model[1].cls = "dut" /\ BaselineDarkEnergy(model[1])) =>
          SameBackground(model[1],
                         LCDM_Vectorized(model[1].H0, model[1].Om, model[1].s8, data))

C19_Witness ==
    /\ ValidEngine /\ model[1].cls = "dut" /\ BaselineDarkEnergy(model[1])
    /\ Called("DV") /\ IsFinite(out[1].ret)

\* the straight line through knots lo and lo + 1 of the Hubble-rate grid, at z
HubbleLine(self, lo, z) ==
    FAdd(FMul(FDiv(FSub(self.hz_grid[lo + 1], self.hz_grid[lo]),
                   FSub(data.z_grid[lo + 1], data.z_grid[lo])),
              FSub(z, data.z_grid[lo])),
         self.hz_grid[lo])

\* C20: H(z) at a z below the first or above the last grid value does not
\* fail: it returns the value of the first or last grid segment's line at z,
\* and DV and fs8 are produced there too.
C20_HubbleExtrapolates ==
    /\ (Called("H") /\ OutsideGrid(out[1].z)) =>
          /\ out[1].exc = "none"
          /\ out[1].ret =
                HubbleLine(model[1],
                           IF FLt(out[1].z, data.z_grid[1]) THEN 1
                           ELSE Len(data.z_grid) - 1,
                           out[1].z)
    /\ ((Called("DV") \/ Called("fs8_model")) /\ OutsideGrid(out[1].z)) =>
          out[1].exc = "none"

C20_Witness ==
    /\ ValidEngine /\ Called("H") /\ FLt(data.z_grid[Len(data.z_grid)], out[1].z)
    /\ IsFinite(out[1].ret)
    /\ FLt(model[1].hz_grid[Len(data.z_grid)], out[1].ret)


\* the call of request r was a curves request and has returned or raised
CurvesDone(r) == calls[r].pc = "done" /\ calls[r].op = "curves"

\* the response of a finished call
ResponseOf(r) == calls[r].response[1]

\* the per-point sequences of the tuple (z, H, Dc, DL, mu, D_V, fs8) that
\* belong to a model: the response's keys for H, mu, D_V and fs8, and Dc, DL
TupleKeys == { "hz", "Dc", "DL", "mu", "dv", "fs8" }

ModelParameters == { "H0", "Om", "w0", "wa", "xi", "s8" }

\* the block c of one model holds every sequence of the tuple, n entries each
OneTuplePerPoint(c, n) ==
    /\ TupleKeys \subseteq DOMAIN c
    /\ \A k \in TupleKeys : Len(c[k]) = n

\* C12: the evaluation takes H0, Om, w0, wa, xi, s8, z_min, z_max, n_points
\* and returns one tuple (z, H, Dc, DL, mu, D_V, fs8) per requested point:
\* every sequence has n_points entries.
C12_OneTuplePerRequestedPoint ==
    \A r \in Requests :
        (CurvesDone(r) /\ ResponseOf(r).status = 200) =>
            /\ Len(ResponseOf(r).content[1].z) = calls[r].query.n_points
            /\ OneTuplePerPoint(ResponseOf(r).content[1].lcdm, calls[r].query.n_points)
            /\ OneTuplePerPoint(ResponseOf(r).content[1].dut, calls[r].query.n_points)
            /\ ModelParameters \subseteq DOMAIN calls[r].query

\* n_points < 1, z_max < z_min, z_min <= -1, or a range that leaves the grid
InvalidQuery(q) ==
    \/ q.n_points < 1
    \/ FLt(q.z_max, q.z_min)
    \/ FLe(q.z_min, FromInt(-1))
    \/ OutsideGrid(q.z_min)
    \/ OutsideGrid(q.z_max)

\* a refusal with a diagnostic: a client-error status
Rejected(resp) == resp.status \in 400..499

\* C13: an invalid curves request is rejected with a diagnostic; no curves
\* request is answered with a NaN or an infinity, or ends in an unhandled
\* internal error.
C13_InvalidRequestsRejected ==
    \A r \in Requests :
        CurvesDone(r) =>
            /\ InvalidQuery(calls[r].query) => Rejected(ResponseOf(r))
            /\ ResponseOf(r).status # 500
            /\ ResponseOf(r).status = 200 => curves_compliant(ResponseOf(r).content[1])

\* the engines of one model type constructed by requests 1..n
RECURSIVE Constructions(_, _)
Constructions(model_type, n) ==
    IF n = 0 THEN 0 ELSE constructed[n][model_type] + Constructions(model_type, n - 1)

\* C14: over any sequence of curves requests, the engine of a parameter tuple
\* (the best fit of a model type) is constructed at most once.
C14_EngineConstructedOncePerTuple ==
    \A model_type \in { "lcdm", "dut" } : Constructions(model_type, MaxRequests) <= 1

\* the three sequences of a probe have n entries
ProbeLengths(z, value, err, n) == Len(z) = n /\ Len(value) = n /\ Len(err) = n

\* the three sequences of a block of the observational response have
\* n_points entries
BlockLengths(b, value) ==
    Len(b.z) = b.n_points /\ Len(b[value]) = b.n_points /\ Len(b.err) = b.n_points

\* C17: for every probe the redshift, measured-value and uncertainty
\* sequences have the probe's recorded point count (n_sn, n_bao, n_hz,
\* n_fs8) as their length, in the data object and in the observational
\* response; the data object stays as it was loaded, whatever engines the
\* requests construct.
C17_ObservationalDatasetFixed ==
    /\ ProbeLengths(data.pantheon_z, data.pantheon_mu, data.pantheon_cov.diag, data.n_sn)
    /\ data.pantheon_cov.shape = << data.n_sn, data.n_sn >>
    /\ ProbeLengths(data.bao_z, data.bao_DV, data.bao_err, data.n_bao)
    /\ ProbeLengths(data.hz_z, data.hz_data, data.hz_err, data.n_hz)
    /\ ProbeLengths(data.fs8_z, data.fs8_data, data.fs8_err, data.n_fs8)
    /\ data = NinjaDataVectorized
    /\ \A r \in Requests :
          (calls[r].pc = "done" /\ calls[r].op = "observational") =>
              /\ ResponseOf(r).status = 200
              /\ BlockLengths(ResponseOf(r).content[1].pantheon, "mu")
              /\ BlockLengths(ResponseOf(r).content[1].bao, "DV")
              /\ BlockLengths(ResponseOf(r).content[1].hubble, "H")
              /\ BlockLengths(ResponseOf(r).content[1].fs8, "fs8")

C17_Witness ==
    \E r1, r2 \in Requests :
        /\ calls[r1].pc = "done" /\ calls[r1].op = "observational"
        /\ ResponseOf(r1).content[1].hubble.n_points = Len(hz_old_z) + Len(hz_euclid_z)
        /\ CurvesDone(r2) /\ constructed[r2].dut = 1

\* the handler of one request run from start to end with nothing else
\* running: the response after the second generate_model_curves returned g
AloneRespond(content) == JSONResponse(content, curves_compliant(content))

AloneAfterDUT(z_array, lcdm, g) ==
    IF g.exc # "none" THEN InternalServerError(g.exc)
    ELSE AloneRespond(curves_content(z_array, lcdm, g.ret[1]))

AloneAfterLCDM(z_array, g) ==
    IF g.exc # "none" THEN InternalServerError(g.exc)
    ELSE AloneAfterDUT(z_array, g.ret[1],
                       generate_model_curves(z_array, "dut", BestFitTable,
                                             NinjaDataVectorized))

AloneCurves(z_array) ==
    AloneAfterLCDM(z_array,
                   generate_model_curves(z_array, "lcdm", BestFitTable,
                                         NinjaDataVectorized))

RunAlone(q) ==
    IF q.n_points < 0 THEN InternalServerError("ValueError")
    ELSE AloneCurves(linspace(q.z_min, q.z_max, q.n_points))

\* the response of every query when it is the only request
AloneResponses == { << q, RunAlone(q) >> : q \in CurveQueries }

ResponseAlone(q) == (CHOOSE p \in AloneResponses : p[1] = q)[2]

\* the call of request r has got past generate_model_curves(z_array, "lcdm")
PastLCDM(r) ==
    \/ calls[r].pc \in { "dut", "respond" }
    \/ CurvesDone(r) /\ calls[r].lcdm # << >>

\* the call of request r has got past generate_model_curves(z_array, "dut")
PastDUT(r) ==
    \/ calls[r].pc = "respond"
    \/ CurvesDone(r) /\ calls[r].dut # << >>

\* C18: every curves request constructs its own engines, one per model type
\* as it reaches it; the shared data object and parameter table are never
\* written; and whatever the interleaving, the response of a request is the
\* response the same request gets when it runs alone.
C18_RequestsIsolated ==
    /\ data = NinjaDataVectorized
    /\ BEST_FIT = BestFitTable
    /\ \A r \in Requests :
          /\ constructed[r].lcdm = (IF PastLCDM(r) THEN 1 ELSE 0)
          /\ constructed[r].dut = (IF PastDUT(r) THEN 1 ELSE 0)
          /\ CurvesDone(r) => ResponseOf(r) = ResponseAlone(calls[r].query)

C18_Witness ==
    \E r1, r2 \in Requests :
        /\ CurvesDone(r1) /\ CurvesDone(r2)
        /\ calls[r1].query # calls[r2].query
        /\ ResponseOf(r1).status = 200 /\ ResponseOf(r2).status = 200
        /\ constructed[r1] = [lcdm |-> 1, dut |-> 1]
        /\ constructed[r2] = [lcdm |-> 1, dut |-> 1]

\* the call of request r was a metrics request and has returned
MetricsDone(r) == calls[r].pc = "done" /\ calls[r].op = "metrics"

\* the number of observational data points the data object holds
TotalDataPoints(d) == d.n_sn + d.n_hz + d.n_fs8 + d.n_bao

\* chi2_dof of a block is chi2_min over the degrees of freedom: the data
\* points of d minus the block's n_params, which is n
DofOf(block, d, n) ==
    /\ block.n_params = n
    /\ block.chi2_dof = FDiv(block.chi2_min, FromInt(TotalDataPoints(d) - n))

\* C21: in the comparison-metrics response the denominator of each model's
\* chi2_dof is the number of loaded data points (n_sn + n_hz + n_fs8 + n_bao)
\* minus the model's n_params (3 for the baseline, 6 for the interacting
\* model), and delta_chi2 is the interacting model's chi2_min minus the
\* baseline's.
C21_MetricsDegreesOfFreedom ==
    \A r \in Requests :
        MetricsDone(r) =>
            /\ ResponseOf(r).status = 200
            /\ DofOf(ResponseOf(r).content[1].lcdm, data, 3)
            /\ DofOf(ResponseOf(r).content[1].dut, data, 6)
            /\ Close(ResponseOf(r).content[1].comparison.delta_chi2,
                     FSub(ResponseOf(r).content[1].dut.chi2_min,
                          ResponseOf(r).content[1].lcdm.chi2_min))


=============================================================================
